---------------------------- MODULE Spec2Model ----------------------------
(***************************************************************************)
(* Thermal-camera panorama stitching of integration_mqtt_gui.              *)
(*                                                                         *)
(* Two specifications:                                                     *)
(*   SpecStitch  manual_stitch_images as a state machine: one step per     *)
(*               loop iteration, then the averaging and the byte mapping;  *)
(*               Init draws its arguments from bounded sets.               *)
(*   Spec        the running client: handle_camera_message (MQTT callback  *)
(*               thread) grows _stitching_data while process_all_cameras   *)
(*               (both implementations of the repository) reads it.        *)
(*                                                                         *)
(* Numbers.  A frame is one row of samples: every array operation of the   *)
(* source acts on whole columns ([:, a:b]), so each row is treated alike.  *)
(* Samples are exact rationals [n, d] (d > 0, lowest terms); float32       *)
(* rounding is modelled where it changes integers (magnitudes of 2^24 and  *)
(* above, F32); roundings of fractions below one unit in 2^24 are not.     *)
(* Angles and coverages are whole degrees.                                 *)
(***************************************************************************)
EXTENDS Integers, Sequences, FiniteSets, TLC

(***************************************************************************)
(* Bounds of the model and constants of the program                        *)
(***************************************************************************)
\* longest (frame, angle) list given to manual_stitch_images in SpecStitch
MaxImages == 2
\* camera messages handled in one behaviour of Spec
MaxMsgs == 3
\* the field of view of one frame in degrees (the literal 20 of the source)
FOV == 20
\* the coverage of a full turn (default full_coverage, and the 360 of process_all_cameras)
FullTurn == 360
\* span above which process_all_cameras takes the full turn
SpanLimit == 300
\* float32 holds integers exactly up to 2^24 (panorama is np.float32)
F32Exact == 16777216
\* top of the uint8 range the byte mapping scales to
ByteMax == 255

(***************************************************************************)
(* Exact rationals: the values of numpy's float arrays                     *)
(***************************************************************************)
Abs(x) == IF x < 0 THEN -x ELSE x

Min2(a, b) == IF a <= b THEN a ELSE b

RECURSIVE GCD(_, _)
GCD(a, b) == IF b = 0 THEN a ELSE GCD(b, a % b)

\* n/d in lowest terms, d > 0
Rat(n, d) ==
    LET g == GCD(Abs(n), Abs(d))
        s == IF d < 0 THEN -1 ELSE 1
    IN  [n |-> (s * n) \div g, d |-> (s * d) \div g]

RatInt(k) == [n |-> k, d |-> 1]

RAdd(a, b) == Rat(a.n * b.d + b.n * a.d, a.d * b.d)

RSub(a, b) == Rat(a.n * b.d - b.n * a.d, a.d * b.d)

RDivInt(a, k) == Rat(a.n, a.d * k)

RMulInt(a, k) == Rat(a.n * k, a.d)

RLt(a, b) == a.n * b.d < b.n * a.d

RLe(a, b) == a.n * b.d <= b.n * a.d

\* float("inf") and float("-inf"), the starting values of temp_min and temp_max
PosInf == [n |-> 1, d |-> 0]

NegInf == [n |-> -1, d |-> 0]

\* min(temp_min, x) and max(temp_max, x) with the infinities as starting values
TMin(t, x) == IF t.d = 0 THEN x ELSE IF RLt(x, t) THEN x ELSE t

TMax(t, x) == IF t.d = 0 THEN x ELSE IF RLt(t, x) THEN x ELSE t

\* the power of two by which an integer of magnitude q is scaled to fit 24 bits
RECURSIVE F32Unit(_)
F32Unit(q) == IF q < F32Exact THEN 1 ELSE 2 * F32Unit(q \div 2)

\* float32 rounding (nearest, ties to even) of a value of magnitude >= 2^24
F32(a) ==
    LET m   == Abs(a.n)
        q0  == m \div a.d
        u   == F32Unit(q0)
        den == a.d * u
        q   == m \div den
        rem == m % den
        r   == IF 2 * rem < den THEN q
               ELSE IF 2 * rem > den THEN q + 1
               ELSE IF q % 2 = 0 THEN q ELSE q + 1
        sg  == IF a.n < 0 THEN -1 ELSE 1
    IN  IF q0 < F32Exact THEN a ELSE RatInt(sg * r * u)

(***************************************************************************)
(* Arrays: a row is a function on 0..w-1 (numpy's zero-based columns); a   *)
(* frame given as a sequence <<v0, v1, ...>> is read through Col           *)
(***************************************************************************)
Width(img) == Len(img)

Col(img, j) == img[j + 1]

\* a frame of integer samples as an array of floats
AsFrame(s) == [k \in 1..Len(s) |-> RatInt(s[k])]

Zeros(W) == [c \in 0..(W - 1) |-> RatInt(0)]

ZeroCount(W) == [c \in 0..(W - 1) |-> 0]

(***************************************************************************)
(* manual_stitch_images: geometry and placement                            *)
(***************************************************************************)
\* total_width = int(w * full_coverage / 20)
TotalWidth(w, C) == (w * C) \div FOV

\* norm_angle = angle % full_coverage; x_offset = int(norm_angle * w / 20)
XOffset(angle, w, C) == ((angle % C) * w) \div FOV

\* AddCols with = in place of += on the panorama
AddColsAssign(cv, img, dst, src, n) ==
    [pano |-> [c \in DOMAIN cv.pano |->
                 IF dst <= c /\ c < dst + n THEN Col(img, c - dst + src) ELSE cv.pano[c]],
     cnt  |-> [c \in DOMAIN cv.cnt |->
                 IF dst <= c /\ c < dst + n THEN cv.cnt[c] + 1 ELSE cv.cnt[c]]]

\* panorama[:, dst:dst+n] += img[:, src:src+n]; overlap_count[:, dst:dst+n] += 1
AddCols(cv, img, dst, src, n) ==
    [pano |-> [c \in DOMAIN cv.pano |->
                 IF dst <= c /\ c < dst + n
                 THEN RAdd(cv.pano[c], Col(img, c - dst + src))
                 ELSE cv.pano[c]],
     cnt  |-> [c \in DOMAIN cv.cnt |->
                 IF dst <= c /\ c < dst + n THEN cv.cnt[c] + 1 ELSE cv.cnt[c]]]

\* PlaceWrapped without the second part (the wrap around)
PlaceWrappedNoTail(cv, img, x, w, W) ==
    [ok |-> TRUE, cv |-> AddCols(cv, img, x, 0, W - x)]

\* the else branch: head to [x_offset:], tail to [:w - wrap_width]. numpy cuts
\* the tail's target to the canvas and raises ValueError when the source is
\* wider than the target (a source of width 1 is broadcast instead)
PlaceWrapped(cv, img, x, w, W) ==
    LET wrap_width == W - x
        tail       == w - wrap_width
        head       == AddCols(cv, img, x, 0, wrap_width)
    IN  IF tail > W /\ tail # 1
        THEN [ok |-> FALSE, cv |-> head]
        ELSE [ok |-> TRUE, cv |-> AddCols(head, img, 0, wrap_width, Min2(tail, W))]

\* target[:, dst:dst+tw] += img[:, src:src+sw] where numpy takes the add: the
\* source as wide as the target, or one column wide and repeated (broadcast)
AddBroadcast(cv, img, dst, tw, src, sw) ==
    [pano |-> [c \in DOMAIN cv.pano |->
                 IF dst <= c /\ c < dst + tw
                 THEN RAdd(cv.pano[c], Col(img, IF sw = 1 THEN src ELSE c - dst + src))
                 ELSE cv.pano[c]],
     cnt  |-> [c \in DOMAIN cv.cnt |->
                 IF dst <= c /\ c < dst + tw THEN cv.cnt[c] + 1 ELSE cv.cnt[c]]]

\* one iteration of the placement loop for a frame whose width is not the w of
\* images[0]: numpy cuts each slice to the array it is taken from and raises
\* ValueError where the source is neither as wide as the target nor one column
PlaceOther(cv, img, x, w, W) ==
    LET iw         == Width(img)
        wrap_width == W - x
        head_src   == Min2(wrap_width, iw)
        head       == AddBroadcast(cv, img, x, wrap_width, 0, head_src)
        tail_dst   == Min2(w - wrap_width, W)
        tail_src   == IF iw > wrap_width THEN iw - wrap_width ELSE 0
    IN  IF x + w <= W
        THEN (IF iw = 1 THEN [ok |-> TRUE, cv |-> AddBroadcast(cv, img, x, w, 0, 1)]
              ELSE [ok |-> FALSE, cv |-> cv])
        ELSE IF head_src # wrap_width /\ head_src # 1 THEN [ok |-> FALSE, cv |-> cv]
        ELSE IF tail_src # tail_dst /\ tail_src # 1 THEN [ok |-> FALSE, cv |-> head]
        ELSE [ok |-> TRUE, cv |-> AddBroadcast(head, img, 0, tail_dst, wrap_width, tail_src)]

\* one iteration of the placement loop
PlaceFrame(cv, img, angle, w, C) ==
    LET W == TotalWidth(w, C)
        x == XOffset(angle, w, C)
    IN  IF x + w <= W
        THEN [ok |-> TRUE, cv |-> AddCols(cv, img, x, 0, w)]
        ELSE PlaceWrapped(cv, img, x, w, W)

\* one iteration of the placement loop, for a frame of any width
PlaceImage(cv, img, angle, w, C) ==
    IF Width(img) = w THEN PlaceFrame(cv, img, angle, w, C)
    ELSE PlaceOther(cv, img, XOffset(angle, w, C), w, TotalWidth(w, C))

\* mask = overlap_count > 0; panorama[mask] = panorama[mask] / overlap_count[mask]
\* MeanOverlap without the mask, panorama / overlap_count: 0 / 0 is NaN
MeanOverlapUnmasked(cv) ==
    [pano |-> [c \in DOMAIN cv.pano |->
                 IF cv.cnt[c] > 0 THEN RDivInt(cv.pano[c], cv.cnt[c]) ELSE [n |-> 0, d |-> 0]],
     cnt  |-> cv.cnt]

MeanOverlap(cv) ==
    [pano |-> [c \in DOMAIN cv.pano |->
                 IF cv.cnt[c] > 0 THEN RDivInt(cv.pano[c], cv.cnt[c]) ELSE cv.pano[c]],
     cnt  |-> cv.cnt]

(***************************************************************************)
(* manual_stitch_images: the byte mapping                                  *)
(***************************************************************************)
\* what astype(np.uint8) may make of NaN: the conversion is undefined in C
NanCast == {0, 128, 255}

\* the bytes to choose from for a call: the mapping makes NaN only with an empty
\* or an infinite range, and any one byte stands for the choice otherwise
NanChoice(tmin, tmax) ==
    IF tmin.d = 0 \/ tmax.d = 0 \/ tmin = tmax THEN NanCast ELSE {0}

\* 255 * (v - temp_min) / (temp_max - temp_min), clipped to [0, 255], astype(uint8).
\* The product is rounded to float32; the cast truncates. With temp_max = temp_min
\* numpy divides by zero: +inf, -inf or NaN, clipped to 255, 0 and NaN. With
\* temp_min and temp_max still at their infinities it is -inf / -inf: NaN.
NormByte(v, tmin, tmax, nb) ==
    LET prod == F32(RMulInt(RSub(v, tmin), ByteMax))
        dlt  == RSub(tmax, tmin)
        \* prod / dlt as one fraction with a positive denominator
        sg   == IF dlt.n < 0 THEN -1 ELSE 1
        num  == sg * prod.n * dlt.d
        den  == sg * prod.d * dlt.n
    IN  IF tmin.d = 0 \/ tmax.d = 0 THEN nb
        ELSE IF dlt.n = 0
        THEN (IF prod.n > 0 THEN ByteMax ELSE IF prod.n < 0 THEN 0 ELSE nb)
        ELSE IF num <= 0 THEN 0
        ELSE IF num >= ByteMax * den THEN ByteMax
        ELSE num \div den

NormRow(pano, tmin, tmax, nb) ==
    [c \in DOMAIN pano |-> NormByte(pano[c], tmin, tmax, nb)]

\* whether the byte mapping divides by zero
DividesByZero(tmin, tmax) == RSub(tmax, tmin).n = 0

(***************************************************************************)
(* manual_stitch_images as one function (as process_all_cameras calls it)  *)
(***************************************************************************)
\* zip(images, angles) stops at the shorter list
NPairs(imgs, angs) == Min2(Len(imgs), Len(angs))

\* the placement loop from pair k on
RECURSIVE PlaceAll(_, _, _, _, _, _)
PlaceAll(cv, imgs, angs, k, w, C) ==
    IF k > NPairs(imgs, angs) THEN [ok |-> TRUE, cv |-> cv]
    ELSE LET r == PlaceImage(cv, imgs[k], angs[k], w, C)
         IN  IF r.ok THEN PlaceAll(r.cv, imgs, angs, k + 1, w, C) ELSE r

\* the outcome of manual_stitch_images: the exception raised, or the byte
\* panorama and the raw panorama (cnt is overlap_count, kept to state the claims)
ManualStitch(imgs, angs, tmin, tmax, C, nb) ==
    IF imgs = <<>>
    THEN [exc |-> "IndexError", norm |-> Zeros(0), raw |-> Zeros(0), cnt |-> ZeroCount(0)]
    ELSE LET w == Width(imgs[1])
             W == TotalWidth(w, C)
             r == PlaceAll([pano |-> Zeros(W), cnt |-> ZeroCount(W)], imgs, angs, 1, w, C)
             m == MeanOverlap(r.cv)
         IN  IF ~r.ok
             THEN [exc |-> "ValueError", norm |-> Zeros(0), raw |-> Zeros(0), cnt |-> ZeroCount(0)]
             ELSE [exc |-> "none", norm |-> NormRow(m.pano, tmin, tmax, nb),
                   raw |-> m.pano, cnt |-> m.cnt]

(***************************************************************************)
(* process_camera_data and process_all_cameras: what they compute          *)
(***************************************************************************)
\* _stitching_data = {}: no camera; order is the insertion order of the dict
EmptyData == [order |-> <<>>, series |-> <<>>]

\* the camera image_stitching.process_all_cameras stitches without settings
DefaultCamera == "camera0"

\* sorted(positions, key=lambda x: float(x))
RECURSIVE SortedSeq(_)
SortedSeq(S) ==
    IF S = {} THEN <<>>
    ELSE LET m == CHOOSE x \in S : \A y \in S : x <= y
         IN  <<m>> \o SortedSeq(S \ {m})

\* min(angles) and max(angles)
SeqMin(s) == CHOOSE x \in {s[k] : k \in 1..Len(s)} : \A k \in 1..Len(s) : x <= s[k]

SeqMax(s) == CHOOSE x \in {s[k] : k \in 1..Len(s)} : \A k \in 1..Len(s) : s[k] <= x

\* the sum of column j of the first k frames of a list
RECURSIVE SumCol(_, _, _)
SumCol(frames, j, k) ==
    IF k = 0 THEN RatInt(0) ELSE RAdd(SumCol(frames, j, k - 1), frames[k][j])

\* np.mean(pos_images, axis=0): the representative frame of a position
MeanFrame(frames) ==
    [j \in 1..Len(frames[1]) |-> RDivInt(SumCol(frames, j, Len(frames)), Len(frames))]

\* np.mean over frames that are not all of one shape raises ValueError (no
\* array can hold them)
MeanRaises(frames) == \E a, b \in DOMAIN frames : Len(frames[a]) # Len(frames[b])

\* img.min() and img.max()
FrameMin(img) == CHOOSE x \in {img[j] : j \in 1..Len(img)} :
                     \A j \in 1..Len(img) : RLe(x, img[j])

FrameMax(img) == CHOOSE x \in {img[j] : j \in 1..Len(img)} :
                     \A j \in 1..Len(img) : RLe(img[j], x)

\* the locals of process_camera_data before its loops
NoFrames == [images |-> <<>>, angles |-> <<>>, temp_min |-> PosInf, temp_max |-> NegInf]

\* image_stitching.process_camera_data, the body of for pos in positions
ReadPosition(acc, frames, pos) ==
    IF frames = <<>> THEN acc
    ELSE LET avg_img == MeanFrame(frames)
         IN  [images   |-> Append(acc.images, avg_img),
              angles   |-> Append(acc.angles, pos),
              temp_min |-> TMin(acc.temp_min, FrameMin(avg_img)),
              temp_max |-> TMax(acc.temp_max, FrameMax(avg_img))]

\* ThermalCamera_TAB.process_camera_data, the body of the first pass
FirstPass(acc, frames) ==
    IF frames = <<>> THEN acc
    ELSE LET img == MeanFrame(frames)
         IN  [acc EXCEPT !.images   = Append(@, img),
                         !.temp_min = TMin(@, FrameMin(img)),
                         !.temp_max = TMax(@, FrameMax(img))]

\* ThermalCamera_TAB.process_camera_data, the body of the second pass
SecondPass(acc, frames, pos) ==
    IF frames = <<>> THEN acc
    ELSE [acc EXCEPT !.images = Append(@, MeanFrame(frames)),
                     !.angles = Append(@, pos)]

\* TabCoverage with the full turn whatever the span
TabCoverageFull(angs) == FullTurn

\* full_coverage = 360 if angle_range > 300 else angle_range + 20
TabCoverage(angs) ==
    LET angle_range == SeqMax(angs) - SeqMin(angs)
    IN  IF angle_range > SpanLimit THEN FullTurn ELSE angle_range + FOV

\* the descriptors: ticks and labels per axis, the margin below the coverage
\* from which the axis shows the whole coverage, labels to one decimal
TickCount == 8

CloseMargin == 10

LabelScale == 10

\* np.linspace(a, b, n)
LinSpace(a, b, n) == [k \in 1..n |-> Rat(a * (n - 1) + (k - 1) * (b - a), n - 1)]

\* x.round(1): the nearest tenth, a tie to the even one
RoundTenth(x) ==
    LET m   == Abs(x.n) * LabelScale
        q   == m \div x.d
        rem == m % x.d
        r   == IF 2 * rem < x.d THEN q
               ELSE IF 2 * rem > x.d THEN q + 1
               ELSE IF q % 2 = 0 THEN q ELSE q + 1
    IN  Rat((IF x.n < 0 THEN -1 ELSE 1) * r, LabelScale)

\* display_min, display_max as the whole angles of the series
DisplayActual(min_angle, max_angle, C) == <<min_angle, max_angle>>

\* display_min, display_max of create_figure_data and recalibrate_to_degrees
DisplayRange(min_angle, max_angle, C) ==
    IF max_angle - min_angle >= C - CloseMargin THEN <<0, C>>
    ELSE <<min_angle, max_angle>>

\* xticks and xticklabels of the linear descriptor of a panorama w columns wide
XTicks(w) == LinSpace(0, w, TickCount)

XTickLabels(min_angle, max_angle, C) ==
    LET d == DisplayRange(min_angle, max_angle, C)
    IN  [k \in 1..TickCount |-> RoundTenth(LinSpace(d[1], d[2], TickCount)[k])]

\* angles of the polar descriptor are kept as multiples of pi: np.radians(a) is
\* a / 180 of pi and 2 * np.pi is 2
HalfTurn == 180

TwoPi == 2

Radians(a) == Rat(a, HalfTurn)

\* max_angle_rad after if max_angle_rad <= min_angle_rad: max_angle_rad += 2 * np.pi
ThetaEndNoTurn(min_angle, max_angle) == Radians(max_angle)

ThetaEnd(min_angle, max_angle) ==
    IF RLe(Radians(max_angle), Radians(min_angle))
    THEN RAdd(Radians(max_angle), RatInt(TwoPi))
    ELSE Radians(max_angle)

\* np.linspace(a, b, w) as the angles of columns 0..w-1 (a alone for w = 1)
ThetaVals(a, b, w) ==
    [c \in 0..(w - 1) |->
        IF w = 1 THEN a ELSE RAdd(a, RDivInt(RMulInt(RSub(b, a), c), w - 1))]

\* what a cycle made for one camera: the byte panorama with what the
\* descriptors were given (raw and cnt are kept to state the claims)
Figures(acc, C, figC, st) ==
    [status       |-> "figures",
     coverage     |-> C,
     fig_coverage |-> figC,
     min_angle    |-> SeqMin(acc.angles),
     max_angle    |-> SeqMax(acc.angles),
     xticks       |-> XTicks(Cardinality(DOMAIN st.norm)),
     xticklabels  |-> XTickLabels(SeqMin(acc.angles), SeqMax(acc.angles), figC),
     theta        |-> ThetaVals(Radians(SeqMin(acc.angles)),
                                ThetaEnd(SeqMin(acc.angles), SeqMax(acc.angles)),
                                Cardinality(DOMAIN st.norm)),
     temp_min     |-> acc.temp_min,
     temp_max     |-> acc.temp_max,
     images       |-> acc.images,
     angles       |-> acc.angles,
     panorama     |-> st.norm,
     raw          |-> st.raw,
     cnt          |-> st.cnt]

\* the camera was handled and nothing was made or reported for it
Nothing ==
    [status       |-> "nothing",
     coverage     |-> 0,
     fig_coverage |-> 0,
     min_angle    |-> 0,
     max_angle    |-> 0,
     xticks       |-> <<>>,
     xticklabels  |-> <<>>,
     theta        |-> <<>>,
     temp_min     |-> PosInf,
     temp_max     |-> NegInf,
     images       |-> <<>>,
     angles       |-> <<>>,
     panorama     |-> Zeros(0),
     raw          |-> Zeros(0),
     cnt          |-> ZeroCount(0)]

\* image_stitching.process_camera_data after its loop: stitch with the default
\* full_coverage, then create_figure_data and create_circular_data (default too)
FinishCamera(acc, nb) ==
    LET st == ManualStitch(acc.images, acc.angles, acc.temp_min, acc.temp_max, FullTurn, nb)
    IN  IF st.exc # "none" THEN [exc |-> st.exc, res |-> Nothing]
        ELSE [exc |-> "none", res |-> Figures(acc, FullTurn, FullTurn, st)]

\* ThermalCamera_TAB.process_all_cameras, the body of for name in cameras.keys()
\* after process_camera_data returned
FinishTabCamera(acc, nb) ==
    IF acc.images = <<>> THEN [exc |-> "none", res |-> Nothing]
    ELSE IF acc.angles = <<>> THEN [exc |-> "ValueError", res |-> Nothing]
    ELSE LET C  == TabCoverage(acc.angles)
             st == ManualStitch(acc.images, acc.angles, acc.temp_min, acc.temp_max, C, nb)
         IN  IF st.exc # "none" THEN [exc |-> st.exc, res |-> Nothing]
             ELSE [exc |-> "none", res |-> Figures(acc, C, C, st)]

\* the loops of process_camera_data over a series that does not change
RECURSIVE ReadAll(_, _, _, _)
ReadAll(acc, series, ps, k) ==
    IF k > Len(ps) THEN acc
    ELSE ReadAll(ReadPosition(acc, series[ps[k]], ps[k]), series, ps, k + 1)

RECURSIVE FirstAll(_, _, _, _)
FirstAll(acc, series, ps, k) ==
    IF k > Len(ps) THEN acc
    ELSE FirstAll(FirstPass(acc, series[ps[k]]), series, ps, k + 1)

RECURSIVE SecondAll(_, _, _, _)
SecondAll(acc, series, ps, k) ==
    IF k > Len(ps) THEN acc
    ELSE SecondAll(SecondPass(acc, series[ps[k]], ps[k]), series, ps, k + 1)

\* process_camera_data of either module on a series that does not change
CameraOf(im, series, nb) ==
    LET ps == SortedSeq(DOMAIN series)
    IN  IF im = "tab"
        THEN FinishTabCamera(SecondAll(FirstAll(NoFrames, series, ps, 1), series, ps, 1), nb)
        ELSE FinishCamera(ReadAll(NoFrames, series, ps, 1), nb)

\* ThermalCamera_TAB.process_all_cameras from camera k on, on data that do not change
RECURSIVE TabAll(_, _, _, _)
TabAll(data, k, out, nbs) ==
    IF k > Len(data.order) THEN [exc |-> "none", output |-> out]
    ELSE LET name == data.order[k]
             r    == CameraOf("tab", data.series[name], nbs[name])
         IN  IF r.exc # "none" THEN [exc |-> r.exc, output |-> out]
             ELSE TabAll(data, k + 1, out @@ (name :> r.res), nbs)

\* process_all_cameras of either module on data that do not change; nbs gives
\* for each camera the byte its NaNs become
ProcessAll(im, data, nbs) ==
    IF im = "tab" THEN TabAll(data, 1, <<>>, nbs)
    ELSE IF DefaultCamera \notin DOMAIN data.series THEN [exc |-> "none", output |-> <<>>]
    ELSE LET r == CameraOf(im, data.series[DefaultCamera], nbs[DefaultCamera])
         IN  IF r.exc # "none" THEN [exc |-> r.exc, output |-> <<>>]
             ELSE [exc |-> "none", output |-> (DefaultCamera :> r.res)]

(***************************************************************************)
(* State                                                                   *)
(***************************************************************************)
VARIABLES
    \* manual_stitch_images (SpecStitch): arguments, locals, position, outcome;
    \* in Spec images, angles, temp_min, temp_max are the locals of
    \* process_camera_data and full_coverage the one of process_all_cameras
    images, angles, full_coverage, temp_min, temp_max,
    panorama, overlap_count, loop_i, panorama_norm,
    st_pc, st_exc, st_warned,
    \* the client (Spec)
    impl,            \* the module process_all_cameras is imported from
    stitching_data,  \* self._stitching_data: camera -> position -> list of frames
    msg_pc, msg,     \* handle_camera_message: where it is, and the message handled
    arrived,         \* the messages handled so far
    cy_pc,           \* process_all_cameras: where it is
    cy_name,         \* camera_name / name
    cy_iter,         \* the iterator of for name in cameras.keys()
    positions,       \* the sorted positions of process_camera_data
    cy_k,            \* positions read in the current loop
    cy_exc,          \* the exception that left process_all_cameras
    output,          \* camera -> what the cycle made for it
    snap,            \* _stitching_data as it was when the cycle was called
    prev,            \* the call before this one: its snapshot and what it gave
    files,           \* the files written to the working directory
    offset_call,     \* one computation of norm_angle and x_offset (SpecOffset)
    system_status,   \* System._status: subsystem -> the status it last sent
    safety_flags,    \* System.safety_flags
    nan_cast         \* the byte astype(np.uint8) makes of NaN on this build:
                     \* {} until a NaN was cast, then the one byte it gave

stitch_vars == <<images, angles, full_coverage, temp_min, temp_max,
                 panorama, overlap_count, loop_i, panorama_norm,
                 st_pc, st_exc, st_warned>>

call_vars == <<panorama, overlap_count, loop_i, panorama_norm, st_pc, st_exc, st_warned>>

ingest_vars == <<msg_pc, msg, arrived>>

service_vars == <<impl, stitching_data, msg_pc, msg, arrived, cy_pc, cy_name, cy_iter,
                  positions, cy_k, cy_exc, output, snap, prev, files>>

safety_vars == <<system_status, safety_flags>>

vars == <<stitch_vars, service_vars, nan_cast, offset_call, safety_vars>>

\* an angle as a float: deg whole degrees, or eps units of 2^-60 degree next to
\* zero (deg + eps * 2^-60 is a double only where deg = 0 or eps = 0)
Degrees(d) == [deg |-> d, eps |-> 0]

\* no offset being computed
NoOffset == [pc |-> "idle", angle |-> Degrees(0), w |-> 0, full_coverage |-> 0,
             norm_angle |-> Degrees(0), x_offset |-> 0]

\* no call yet
NoCall == [called |-> FALSE, snap |-> EmptyData, exc |-> "none", output |-> <<>>]

\* the bytes a NaN can become now: any of NanCast the first time, the same after
CastNow == IF nan_cast = {} THEN NanCast ELSE nan_cast

\* the bytes to choose from for a call with this range, and what is known of
\* the cast after the call
NanByteOf(tmin, tmax) ==
    IF NanChoice(tmin, tmax) = NanCast THEN CastNow ELSE NanChoice(tmin, tmax)

CastAfter(tmin, tmax, nb) ==
    IF NanChoice(tmin, tmax) = NanCast THEN {nb} ELSE nan_cast

\* a dict with no key
EmptyDict == <<>>

\* System.__init__: the status of the three subsystems it starts with, and the
\* flags at their safest
SystemAtRest ==
    /\ system_status = [k \in {"marta", "coldroom", "thermal_camera"} |-> EmptyDict]
    /\ safety_flags = [door_locked |-> TRUE, sleep |-> TRUE, hv_safe |-> FALSE]

\* the client and the stitching service apart from the stored series, before
\* any message and any cycle
ClientAtRest ==
    /\ SystemAtRest
    /\ msg_pc = "idle"
    /\ msg = [camera |-> DefaultCamera, position |-> 0, image |-> <<>>]
    /\ arrived = {}
    /\ cy_pc = "idle"
    /\ cy_name = DefaultCamera
    /\ cy_iter = [idx |-> 0, size |-> 0]
    /\ positions = <<>>
    /\ cy_k = 0
    /\ cy_exc = "none"
    /\ output = <<>>
    /\ snap = EmptyData
    /\ prev = NoCall
    /\ files = {}

\* the client after construction, no cycle called
ServiceAtRest ==
    /\ stitching_data = EmptyData
    /\ ClientAtRest

(***************************************************************************)
(* SpecStitch: manual_stitch_images step by step                           *)
(***************************************************************************)
\* the arguments SpecStitch draws from: frames of two columns (samples in units
\* of 2^-10 degree), whole-degree angles, coverages below and above one frame's
\* field of view, and temperature ranges (one empty)
StitchFrames == {<<1, 3>>, <<5, 1>>, <<0, 65795>>}

StitchAngles == {0, 12, 24, 33, -4}

StitchCoverages == {15, 17, 25, 40}

StitchRanges == {<<1, 5>>, <<3, 3>>, <<0, 65795>>}

SeqsUpTo(S, n) == UNION {[1..k -> S] : k \in 0..n}

StitchInit ==
    /\ \E fs \in SeqsUpTo(StitchFrames, MaxImages) :
         /\ images = [k \in 1..Len(fs) |-> AsFrame(fs[k])]
         /\ angles \in [1..Len(fs) -> StitchAngles]
    /\ full_coverage \in StitchCoverages
    /\ \E r \in StitchRanges :
         /\ temp_min = RatInt(r[1])
         /\ temp_max = RatInt(r[2])
    /\ panorama = Zeros(0)
    /\ overlap_count = ZeroCount(0)
    /\ panorama_norm = Zeros(0)
    /\ loop_i = 0
    /\ st_pc = "call"
    /\ st_exc = "none"
    /\ st_warned = FALSE
    /\ impl = "image_stitching"
    /\ ServiceAtRest
    /\ nan_cast = {}
    /\ offset_call = NoOffset

\* h, w = images[0].shape; total_width; the two np.zeros
StitchEnter ==
    /\ st_pc = "call"
    /\ IF images = <<>>
       THEN /\ st_pc' = "raised"
            /\ st_exc' = "IndexError"
            /\ UNCHANGED <<panorama, overlap_count>>
       ELSE /\ st_pc' = "place"
            /\ panorama' = Zeros(TotalWidth(Width(images[1]), full_coverage))
            /\ overlap_count' = ZeroCount(TotalWidth(Width(images[1]), full_coverage))
            /\ UNCHANGED st_exc
    /\ UNCHANGED <<images, angles, full_coverage, temp_min, temp_max, loop_i,
                   panorama_norm, st_warned>>
    /\ UNCHANGED <<service_vars, nan_cast, offset_call, safety_vars>>

\* one iteration of for i, (img, angle) in enumerate(zip(images, angles))
StitchPlace ==
    /\ st_pc = "place"
    /\ loop_i < NPairs(images, angles)
    /\ LET r == PlaceImage([pano |-> panorama, cnt |-> overlap_count],
                           images[loop_i + 1], angles[loop_i + 1],
                           Width(images[1]), full_coverage)
       IN  /\ panorama' = r.cv.pano
           /\ overlap_count' = r.cv.cnt
           /\ loop_i' = loop_i + 1
           /\ st_pc' = IF r.ok THEN "place" ELSE "raised"
           /\ st_exc' = IF r.ok THEN "none" ELSE "ValueError"
    /\ UNCHANGED <<images, angles, full_coverage, temp_min, temp_max,
                   panorama_norm, st_warned>>
    /\ UNCHANGED <<service_vars, nan_cast, offset_call, safety_vars>>

\* the masked division after the loop
StitchMean ==
    /\ st_pc = "place"
    /\ loop_i = NPairs(images, angles)
    /\ panorama' = MeanOverlap([pano |-> panorama, cnt |-> overlap_count]).pano
    /\ st_pc' = "norm"
    /\ UNCHANGED <<images, angles, full_coverage, temp_min, temp_max, overlap_count,
                   loop_i, panorama_norm, st_exc, st_warned>>
    /\ UNCHANGED <<service_vars, nan_cast, offset_call, safety_vars>>

\* the byte mapping and the return
StitchNorm ==
    /\ st_pc = "norm"
    /\ \E nb \in NanByteOf(temp_min, temp_max) :
         /\ panorama_norm' = NormRow(panorama, temp_min, temp_max, nb)
         /\ nan_cast' = CastAfter(temp_min, temp_max, nb)
    /\ UNCHANGED <<offset_call, safety_vars>>
    /\ st_warned' = DividesByZero(temp_min, temp_max)
    /\ st_pc' = "done"
    /\ UNCHANGED <<images, angles, full_coverage, temp_min, temp_max, panorama,
                   overlap_count, loop_i, st_exc>>
    /\ UNCHANGED service_vars

StitchNext == StitchEnter \/ StitchPlace \/ StitchMean \/ StitchNorm

SpecStitch == StitchInit /\ [][StitchNext]_vars

(***************************************************************************)
(* Spec: the client. handle_camera_message runs on the MQTT thread, one    *)
(* step per statement that touches _stitching_data; process_all_cameras    *)
(* runs on the caller's thread, one step per read of _stitching_data. A    *)
(* behaviour holds one call: a call keeps nothing from the calls before.   *)
(***************************************************************************)
\* the camera messages that can arrive, each at most once and in any order:
\* frames of two columns (samples in units of 2^-10 degree) from two cameras,
\* camera0 at four positions of its turn (two frames at one of them)
Messages ==
    {[camera |-> "camera0", position |-> 0,   image |-> <<1, 3>>],
     [camera |-> "camera0", position |-> 90,  image |-> <<1, 3>>],
     [camera |-> "camera0", position |-> 90,  image |-> <<4, 7>>],
     [camera |-> "camera0", position |-> 270, image |-> <<1, 3>>],
     [camera |-> "camera0", position |-> 350, image |-> <<4, 7>>],
     [camera |-> "camera1", position |-> 0,   image |-> <<3, 3>>]}

local_vars == <<images, angles, full_coverage, temp_min, temp_max>>

cycle_vars == <<cy_pc, cy_name, cy_iter, positions, cy_k, cy_exc, output, snap, prev,
                files>>

\* the locals of process_camera_data as one record, and their assignment
Locals == [images |-> images, angles |-> angles, temp_min |-> temp_min, temp_max |-> temp_max]

\* SetLocals that leaves the locals as the call before left them
KeepLocals(acc) == UNCHANGED local_vars

SetLocals(acc) ==
    /\ images' = acc.images
    /\ angles' = acc.angles
    /\ temp_min' = acc.temp_min
    /\ temp_max' = acc.temp_max

\* the frames _stitching_data holds now for the camera and position being read
FramesAt(k) == stitching_data.series[cy_name][positions[k]]

\* no call of the stitching functions made yet
NothingStitched ==
    /\ nan_cast = {}
    /\ images = <<>>
    /\ angles = <<>>
    /\ temp_min = PosInf
    /\ temp_max = NegInf
    /\ full_coverage = FullTurn
    /\ panorama = Zeros(0)
    /\ overlap_count = ZeroCount(0)
    /\ panorama_norm = Zeros(0)
    /\ loop_i = 0
    /\ st_pc = "idle"
    /\ st_exc = "none"
    /\ st_warned = FALSE

Init ==
    /\ impl \in {"image_stitching", "tab"}
    /\ ServiceAtRest
    /\ NothingStitched
    /\ offset_call = NoOffset

\* handle_camera_message up to self._stitching_data[camera_name] = {}
IngestCamera(m) ==
    /\ msg_pc = "idle"
    /\ m \notin arrived
    /\ Cardinality(arrived) < MaxMsgs
    /\ msg' = m
    /\ arrived' = arrived \cup {m}
    /\ msg_pc' = "position"
    /\ stitching_data' =
         IF m.camera \in DOMAIN stitching_data.series THEN stitching_data
         ELSE [order  |-> Append(stitching_data.order, m.camera),
               series |-> stitching_data.series @@ (m.camera :> <<>>)]
    /\ UNCHANGED <<stitch_vars, impl, cycle_vars, nan_cast, offset_call, safety_vars>>

\* if position not in self._stitching_data[camera_name]: ... = []
IngestPosition ==
    /\ msg_pc = "position"
    /\ msg_pc' = "append"
    /\ stitching_data' =
         IF msg.position \in DOMAIN stitching_data.series[msg.camera] THEN stitching_data
         ELSE [stitching_data EXCEPT !.series[msg.camera] = @ @@ (msg.position :> <<>>)]
    /\ UNCHANGED <<stitch_vars, impl, msg, arrived, cycle_vars, nan_cast, offset_call, safety_vars>>

\* a handler that puts the frame in front of the stored ones
IngestPrepend ==
    /\ msg_pc = "append"
    /\ msg_pc' = "idle"
    /\ stitching_data' =
         [stitching_data EXCEPT !.series[msg.camera][msg.position] =
                                    <<AsFrame(msg.image)>> \o @]
    /\ UNCHANGED <<stitch_vars, impl, msg, arrived, cycle_vars, nan_cast, offset_call, safety_vars>>

\* self._stitching_data[camera_name][position].append(processed_image)
IngestAppend ==
    /\ msg_pc = "append"
    /\ msg_pc' = "idle"
    /\ stitching_data' =
         [stitching_data EXCEPT !.series[msg.camera][msg.position] =
                                    Append(@, AsFrame(msg.image))]
    /\ UNCHANGED <<stitch_vars, impl, msg, arrived, cycle_vars, nan_cast, offset_call, safety_vars>>

\* __stitching calls image_stitching.process_all_cameras(self._stitching_data)
CallProcessAll ==
    /\ impl = "image_stitching"
    /\ cy_pc = "idle"
    /\ snap' = stitching_data
    /\ output' = <<>>
    /\ cy_exc' = "none"
    /\ cy_name' = DefaultCamera
    /\ cy_pc' = IF DefaultCamera \in DOMAIN stitching_data.series THEN "keys" ELSE "done"
    /\ positions' = <<>>
    /\ cy_k' = 0
    /\ SetLocals(NoFrames)
    /\ UNCHANGED <<full_coverage, call_vars, nan_cast, offset_call, safety_vars, prev, files, impl, stitching_data, ingest_vars, cy_iter>>

\* __stitching calls ThermalCamera_TAB's process_all_cameras: cameras.keys() is
\* a view of the live dict and the for loop takes an iterator on it
TabCallProcessAll ==
    /\ impl = "tab"
    /\ cy_pc = "idle"
    /\ snap' = stitching_data
    /\ output' = <<>>
    /\ cy_exc' = "none"
    /\ cy_iter' = [idx |-> 0, size |-> Len(stitching_data.order)]
    /\ cy_pc' = "next"
    /\ positions' = <<>>
    /\ cy_k' = 0
    /\ SetLocals(NoFrames)
    /\ UNCHANGED <<full_coverage, call_vars, nan_cast, offset_call, safety_vars, prev, files, impl, stitching_data, ingest_vars, cy_name>>

\* the next name of for name in cameras.keys(): RuntimeError (dictionary changed
\* size during iteration) when a camera was added since the loop began
TabNextCamera ==
    /\ impl = "tab"
    /\ cy_pc = "next"
    /\ IF Len(stitching_data.order) # cy_iter.size
       THEN /\ cy_pc' = "raised"
            /\ cy_exc' = "RuntimeError"
            /\ UNCHANGED <<cy_name, cy_iter>>
       ELSE IF cy_iter.idx = cy_iter.size
       THEN /\ cy_pc' = "done"
            /\ UNCHANGED <<cy_name, cy_iter, cy_exc>>
       ELSE /\ cy_pc' = "keys"
            /\ cy_name' = stitching_data.order[cy_iter.idx + 1]
            /\ cy_iter' = [cy_iter EXCEPT !.idx = @ + 1]
            /\ UNCHANGED cy_exc
    /\ UNCHANGED <<stitch_vars, impl, stitching_data, ingest_vars, positions, cy_k,
                   output, snap, prev, files, nan_cast, offset_call, safety_vars>>

\* process_camera_data (either module) up to its first loop
ProcessCameraData ==
    /\ cy_pc = "keys"
    /\ positions' = SortedSeq(DOMAIN stitching_data.series[cy_name])
    /\ cy_k' = 0
    /\ SetLocals(NoFrames)
    /\ cy_pc' = IF DOMAIN stitching_data.series[cy_name] = {} THEN "stitch"
                ELSE IF impl = "tab" THEN "first" ELSE "read"
    /\ UNCHANGED <<full_coverage, call_vars, nan_cast, offset_call, safety_vars, prev, files, impl, stitching_data, ingest_vars,
                   cy_name, cy_iter, cy_exc, output, snap>>

\* image_stitching.process_camera_data: one iteration of for pos in positions
ReadNext ==
    /\ impl = "image_stitching"
    /\ cy_pc = "read"
    /\ IF MeanRaises(FramesAt(cy_k + 1))
       THEN /\ cy_pc' = "raised"
            /\ cy_exc' = "ValueError"
            /\ UNCHANGED <<local_vars, cy_k>>
       ELSE /\ SetLocals(ReadPosition(Locals, FramesAt(cy_k + 1), positions[cy_k + 1]))
            /\ cy_k' = cy_k + 1
            /\ cy_pc' = IF cy_k + 1 = Len(positions) THEN "stitch" ELSE "read"
            /\ UNCHANGED cy_exc
    /\ UNCHANGED <<full_coverage, call_vars, nan_cast, offset_call, safety_vars, prev, files, impl, stitching_data, ingest_vars,
                   cy_name, cy_iter, positions, output, snap>>

\* ThermalCamera_TAB.process_camera_data: one iteration of the first pass
TabFirstNext ==
    /\ impl = "tab"
    /\ cy_pc = "first"
    /\ IF MeanRaises(FramesAt(cy_k + 1))
       THEN /\ cy_pc' = "raised"
            /\ cy_exc' = "ValueError"
            /\ UNCHANGED <<local_vars, cy_k>>
       ELSE /\ SetLocals(FirstPass(Locals, FramesAt(cy_k + 1)))
            /\ cy_k' = IF cy_k + 1 = Len(positions) THEN 0 ELSE cy_k + 1
            /\ cy_pc' = IF cy_k + 1 = Len(positions) THEN "second" ELSE "first"
            /\ UNCHANGED cy_exc
    /\ UNCHANGED <<full_coverage, call_vars, nan_cast, offset_call, safety_vars, prev, files, impl, stitching_data, ingest_vars,
                   cy_name, cy_iter, positions, output, snap>>

\* ThermalCamera_TAB.process_camera_data: one iteration of the second pass
TabSecondNext ==
    /\ impl = "tab"
    /\ cy_pc = "second"
    /\ IF MeanRaises(FramesAt(cy_k + 1))
       THEN /\ cy_pc' = "raised"
            /\ cy_exc' = "ValueError"
            /\ UNCHANGED <<local_vars, cy_k>>
       ELSE /\ SetLocals(SecondPass(Locals, FramesAt(cy_k + 1), positions[cy_k + 1]))
            /\ cy_k' = cy_k + 1
            /\ cy_pc' = IF cy_k + 1 = Len(positions) THEN "stitch" ELSE "second"
            /\ UNCHANGED cy_exc
    /\ UNCHANGED <<full_coverage, call_vars, nan_cast, offset_call, safety_vars, prev, files, impl, stitching_data, ingest_vars,
                   cy_name, cy_iter, positions, output, snap>>

\* image_stitching: stitch, make the figure data and return them; an exception
\* of the stitching leaves process_all_cameras
StitchCamera ==
    /\ impl = "image_stitching"
    /\ cy_pc = "stitch"
    /\ \E nb \in NanByteOf(temp_min, temp_max) : \E r \in {FinishCamera(Locals, nb)} :
             /\ nan_cast' = IF r.exc = "none" THEN CastAfter(temp_min, temp_max, nb)
                             ELSE nan_cast
             /\ cy_exc' = r.exc
             /\ cy_pc' = IF r.exc = "none" THEN "done" ELSE "raised"
             /\ output' = IF r.exc = "none" THEN (cy_name :> r.res) ELSE output
    /\ UNCHANGED <<stitch_vars, impl, stitching_data, ingest_vars, cy_name, cy_iter,
                   positions, cy_k, snap, prev, files, offset_call, safety_vars>>

\* angle_calibrated_fig.savefig(f"{name}_linear.jpg") and
\* ring_fig1.savefig(f"{name}_circular.jpg")
SavedFor(name) == {<<name, "_linear.jpg">>, <<name, "_circular.jpg">>}

\* ThermalCamera_TAB: the body of the loop of process_all_cameras after
\* process_camera_data returned (figures made and saved), then back to the
\* loop's head
TabStitchCamera ==
    /\ impl = "tab"
    /\ cy_pc = "stitch"
    /\ \E nb \in NanByteOf(temp_min, temp_max) : \E r \in {FinishTabCamera(Locals, nb)} :
             /\ nan_cast' = IF r.res.status = "figures"
                             THEN CastAfter(temp_min, temp_max, nb) ELSE nan_cast
             /\ cy_exc' = r.exc
             /\ cy_pc' = IF r.exc = "none" THEN "next" ELSE "raised"
             /\ output' = IF r.exc = "none" THEN output @@ (cy_name :> r.res) ELSE output
             /\ full_coverage' = IF r.res.status = "figures" THEN r.res.coverage
                                 ELSE full_coverage
             /\ files' = IF r.res.status = "figures" THEN files \cup SavedFor(cy_name)
                         ELSE files
    /\ UNCHANGED <<images, angles, temp_min, temp_max, call_vars, impl, stitching_data,
                   ingest_vars, cy_name, cy_iter, positions, cy_k, snap, prev,
                   offset_call, safety_vars>>

Next ==
    \/ \E m \in Messages : IngestCamera(m)
    \/ IngestPosition
    \/ IngestAppend
    \/ CallProcessAll
    \/ TabCallProcessAll
    \/ TabNextCamera
    \/ ProcessCameraData
    \/ ReadNext
    \/ TabFirstNext
    \/ TabSecondNext
    \/ StitchCamera
    \/ TabStitchCamera

Spec == Init /\ [][Next]_vars

(***************************************************************************)
(* SpecCycles: calls of process_all_cameras one after another. Messages    *)
(* are handled between the calls only, so each call reads data that stay   *)
(* as they are; a call starts with whatever the call before left behind.   *)
(***************************************************************************)
\* _stitching_data after handle_camera_message has run through for message m
AfterMessage(data, m) ==
    LET cameras == IF m.camera \in DOMAIN data.series THEN data
                   ELSE [order  |-> Append(data.order, m.camera),
                         series |-> data.series @@ (m.camera :> <<>>)]
        listed  == IF m.position \in DOMAIN cameras.series[m.camera] THEN cameras
                   ELSE [cameras EXCEPT !.series[m.camera] = @ @@ (m.position :> <<>>)]
    IN  [listed EXCEPT !.series[m.camera][m.position] = Append(@, AsFrame(m.image))]

\* no call of process_all_cameras is running
Between == cy_pc \in {"idle", "done", "raised"}

\* handle_camera_message from its first line to its last, between two calls
HandleMessage(m) ==
    /\ Between
    /\ msg_pc = "idle"
    /\ m \notin arrived
    /\ Cardinality(arrived) < MaxMsgs
    /\ msg' = m
    /\ arrived' = arrived \cup {m}
    /\ stitching_data' = AfterMessage(stitching_data, m)
    /\ UNCHANGED <<stitch_vars, impl, msg_pc, cycle_vars, nan_cast, offset_call, safety_vars>>

\* process_all_cameras has returned or raised: back in the caller, the locals of
\* the call are left as they were
ReturnToCaller ==
    /\ cy_pc \in {"done", "raised"}
    /\ prev' = [called |-> TRUE, snap |-> snap, exc |-> cy_exc, output |-> output]
    /\ cy_pc' = "idle"
    /\ UNCHANGED <<stitch_vars, impl, stitching_data, ingest_vars, cy_name, cy_iter,
                   positions, cy_k, cy_exc, output, snap, files, nan_cast, offset_call, safety_vars>>

CyclesNext ==
    \/ \E m \in Messages : HandleMessage(m)
    \/ ReturnToCaller
    \/ CallProcessAll
    \/ TabCallProcessAll
    \/ TabNextCamera
    \/ ProcessCameraData
    \/ ReadNext
    \/ TabFirstNext
    \/ TabSecondNext
    \/ StitchCamera
    \/ TabStitchCamera

SpecCycles == Init /\ [][CyclesNext]_vars

(***************************************************************************)
(* SpecOffset: norm_angle and x_offset of one loop iteration, on floats    *)
(***************************************************************************)
IsNegative(a) == a.deg < 0 \/ (a.deg = 0 /\ a.eps < 0)

IsZero(a) == a.deg = 0 /\ a.eps = 0

\* C's fmod(a, C): the exact remainder, with the sign of a
FMod(a, C) ==
    IF a.eps # 0 THEN a
    ELSE Degrees(IF a.deg >= 0 THEN a.deg % C ELSE 0 - ((0 - a.deg) % C))

\* m + C rounded to the nearest double: 2^-60 is below half a unit in the last
\* place of any C >= 1
F64Add(m, C) == IF m.deg + C # 0 THEN Degrees(m.deg + C) ELSE m

\* Python's float a % C for C > 0: fmod, and C added to a negative remainder
PyMod(a, C) ==
    LET m == FMod(a, C)
    IN  IF ~IsZero(m) /\ IsNegative(m) THEN F64Add(m, C) ELSE m

\* int(norm_angle * w / 20): the quotient cut toward zero
OffsetOf(norm, w) ==
    IF norm.deg >= 0 THEN (norm.deg * w) \div FOV
    ELSE 0 - (((0 - norm.deg) * w) \div FOV)

\* the angles, frame widths and coverages SpecOffset draws from: whole degrees
\* below zero, within and beyond a coverage, and the two doubles next to zero
OffsetAngles ==
    {Degrees(d) : d \in {-400, -360, -4, 0, 12, 24, 33, 359, 360, 725}}
        \cup {[deg |-> 0, eps |-> -1], [deg |-> 0, eps |-> 1]}

OffsetWidths == {2, 24}

OffsetCoverages == {15, 17, 25, 40, 360}

OffsetInit ==
    /\ impl = "image_stitching"
    /\ ServiceAtRest
    /\ NothingStitched
    /\ \E a \in OffsetAngles, w \in OffsetWidths, C \in OffsetCoverages :
         offset_call = [pc |-> "angle", angle |-> a, w |-> w, full_coverage |-> C,
                        norm_angle |-> Degrees(0), x_offset |-> 0]

\* norm_angle = angle % full_coverage
OffsetNormalize ==
    /\ offset_call.pc = "angle"
    /\ offset_call' = [offset_call EXCEPT
                          !.norm_angle = PyMod(offset_call.angle, offset_call.full_coverage),
                          !.pc = "offset"]
    /\ UNCHANGED <<stitch_vars, service_vars, nan_cast, safety_vars>>

\* x_offset = int(norm_angle * w / 20)
OffsetCompute ==
    /\ offset_call.pc = "offset"
    /\ offset_call' = [offset_call EXCEPT
                          !.x_offset = OffsetOf(offset_call.norm_angle, offset_call.w),
                          !.pc = "done"]
    /\ UNCHANGED <<stitch_vars, service_vars, nan_cast, safety_vars>>

OffsetNext == OffsetNormalize \/ OffsetCompute

SpecOffset == OffsetInit /\ [][OffsetNext]_vars

(***************************************************************************)
(* SpecSeries: process_all_cameras on a given series of one camera         *)
(***************************************************************************)
\* the frame lists a position of the series holds: none, one frame, one frame
\* with a sample below zero, two frames of the camera's shape, one frame of
\* another shape, and one of each shape
SeriesLists ==
    {<<>>,
     <<AsFrame(<<1, 3>>)>>,
     <<AsFrame(<<-3, 1>>)>>,
     <<AsFrame(<<1, 3>>), AsFrame(<<4, 7>>)>>,
     <<AsFrame(<<2, 2, 2>>)>>,
     <<AsFrame(<<1, 3>>), AsFrame(<<2, 2, 2>>)>>}

SeriesPositions == {0, 90, 350}

\* the cameras argument: camera0 with any of the positions, each with one of
\* the frame lists
Snapshots ==
    {[order |-> <<DefaultCamera>>, series |-> (DefaultCamera :> s)] :
        s \in UNION {[P -> SeriesLists] : P \in SUBSET SeriesPositions}}

SeriesInit ==
    /\ impl \in {"image_stitching", "tab"}
    /\ stitching_data \in Snapshots
    /\ ClientAtRest
    /\ NothingStitched
    /\ offset_call = NoOffset

SeriesNext ==
    \/ CallProcessAll
    \/ TabCallProcessAll
    \/ TabNextCamera
    \/ ProcessCameraData
    \/ ReadNext
    \/ TabFirstNext
    \/ TabSecondNext
    \/ StitchCamera
    \/ TabStitchCamera

SpecSeries == SeriesInit /\ [][SeriesNext]_vars

(***************************************************************************)
(* Claims about manual_stitch_images (SpecStitch)                          *)
(***************************************************************************)
\* the frame width, the canvas width and the offset of pair k in the current call
CurW == Width(images[1])

CurTotal == TotalWidth(CurW, full_coverage)

CurOffset(k) == XOffset(angles[k], CurW, full_coverage)

\* the frame columns of pair k whose placement, continued across the canvas
\* boundary, falls on canvas column c
ColsOn(k, c) == {j \in 0..(CurW - 1) : (CurOffset(k) + j) % CurTotal = c}

\* the pairs whose placement window, with its wrapped part, covers column c
Covering(c) == {k \in 1..NPairs(images, angles) : ColsOn(k, c) # {}}

\* the sample of frame k that lies on column c
SampleOn(k, c) == Col(images[k], CHOOSE j \in ColsOn(k, c) : TRUE)

RECURSIVE SumOn(_, _)
SumOn(K, c) ==
    IF K = {} THEN RatInt(0)
    ELSE LET k == CHOOSE x \in K : TRUE
         IN  RAdd(SampleOn(k, c), SumOn(K \ {k}, c))

\* the raw mosaic at column c is the mean of the covering frames, counted once each
MeanOfCovering(c) ==
    /\ overlap_count[c] = Cardinality(Covering(c))
    /\ overlap_count[c] > 0 =>
         panorama[c] = RDivInt(SumOn(Covering(c), c), Cardinality(Covering(c)))

Averaged == st_pc \in {"norm", "done"}

\* C1 (as claimed): for every (frame, angle) list and every coverage, once
\* manual_stitch_images has averaged, each pixel with count > 0 is the mean of
\* exactly the frames whose window covers it, and count is their number.
C1_MeanOfCoveringFrames ==
    Averaged => \A c \in DOMAIN panorama : MeanOfCovering(c)

\* the same where no frame is wider than the canvas
MeanOfCoveringWhenFits ==
    (Averaged /\ CurW <= CurTotal) => \A c \in DOMAIN panorama : MeanOfCovering(c)

\* the outcome of the call on the list reordered by p (pairs kept together)
Permuted(p) ==
    ManualStitch([k \in 1..Len(images) |-> images[p[k]]],
                 [k \in 1..Len(angles) |-> angles[p[k]]],
                 temp_min, temp_max, full_coverage, 0)

NextK == loop_i + 1

Crossing == st_pc = "place" /\ loop_i < NPairs(images, angles)
            /\ CurOffset(NextK) + CurW > CurTotal

\* the head [offset:W_total] and the tail [0:tail_width] of a crossing placement
HeadCols == {c \in 0..(CurTotal - 1) : CurOffset(NextK) <= c}

TailCols == {c \in 0..(CurTotal - 1) : c < CurW - (CurTotal - CurOffset(NextK))}

\* a crossing placement adds frame column j to canvas column (offset + j) mod
\* W_total, the first W_total - offset columns on the head and the others on the
\* tail, and adds 1 to the count of exactly those columns
CrossingStep ==
    /\ st_pc' = "place"
    /\ \A j \in 0..(CurW - 1) :
         /\ (CurOffset(NextK) + j) % CurTotal \in HeadCols \cup TailCols
         /\ (j < CurTotal - CurOffset(NextK)) <=>
                ((CurOffset(NextK) + j) % CurTotal \in HeadCols)
    /\ \A c \in 0..(CurTotal - 1) :
         /\ overlap_count'[c] = overlap_count[c]
                                + (IF c \in HeadCols \cup TailCols THEN 1 ELSE 0)
         /\ (c \in HeadCols \cup TailCols) <=> (ColsOn(NextK, c) # {})
         /\ panorama'[c] = IF ColsOn(NextK, c) = {} THEN panorama[c]
                           ELSE RAdd(panorama[c], SampleOn(NextK, c))

C4_DegenerateRangeFixedByte ==
    (st_pc = "done" /\ temp_min = temp_max) =>
        /\ ~st_warned
        /\ \A c \in DOMAIN panorama_norm : panorama_norm[c] \in {127, 128}
        /\ \A c, e \in DOMAIN panorama_norm : panorama_norm[c] = panorama_norm[e]

\* C5 (as claimed): with temp_min < temp_max a sample equal to temp_min maps to
\* 0, one equal to temp_max to 255, samples outside to 0 and 255, and every byte
\* lies in 0..255.
C5_EndpointsExact ==
    (st_pc = "done" /\ RLt(temp_min, temp_max)) =>
        \A c \in DOMAIN panorama_norm :
            /\ panorama_norm[c] \in 0..ByteMax
            /\ RLe(panorama[c], temp_min) => panorama_norm[c] = 0
            /\ RLe(temp_max, panorama[c]) => panorama_norm[c] = ByteMax

(***************************************************************************)
(* Claims about a stitching cycle (Spec)                                   *)
(***************************************************************************)
\* the cameras the cycle made figures for
Stitched == {n \in DOMAIN output : output[n].status = "figures"}

\* C6 (as claimed): in every cycle the coverage given to the mosaic builder and
\* to the descriptors is 360 when max(angles) - min(angles) is above 300, and
\* that span plus 20 otherwise.
C6_CoverageBySpan ==
    \A n \in Stitched :
        LET span == SeqMax(output[n].angles) - SeqMin(output[n].angles)
            rule == IF span > 300 THEN 360 ELSE span + 20
        IN  /\ output[n].coverage = rule
            /\ output[n].fig_coverage = rule

\* the cameras stitched from frames at exactly the positions 0, 90 and 270
ThreePositions == {n \in Stitched : output[n].angles = <<0, 90, 270>>}

\* canvas column c lies in the 20-degree window that starts at angle a, for
\* frames of w columns
InWindow(c, a, w) == a * w <= c * FOV /\ c * FOV < (a + FOV) * w

\* count > 0 only inside the windows of the frames placed
OnlyInWindows(n) ==
    \A c \in DOMAIN output[n].cnt :
        output[n].cnt[c] > 0 =>
            \E k \in 1..Len(output[n].angles) :
                InWindow(c, output[n].angles[k], Len(output[n].images[1]))

\* C7 (as claimed): a camera with positions 0, 90 and 270 is stitched with
\* coverage 360, and count > 0 only inside the three windows.
C7_ThreePositionsFullTurn ==
    \A n \in ThreePositions : output[n].coverage = 360 /\ OnlyInWindows(n)

\* C7 (amended): a camera with positions 0, 90 and 270 is stitched with coverage
\* 290 by ThermalCamera_TAB (span + 20) and with 360 by image_stitching, and
\* count > 0 only inside the three windows.
C7_ThreePositionsCoverage ==
    \A n \in ThreePositions :
        /\ output[n].coverage = IF impl = "tab" THEN 290 ELSE 360
        /\ OnlyInWindows(n)

\* ThermalCamera_TAB has stitched a camera with positions 0, 90 and 270
C7_Witness ==
    /\ impl = "tab"
    /\ cy_pc = "done"
    /\ ThreePositions # {}

\* C8 (as claimed): a camera none of whose positions has a frame gets an
\* InsufficientData result; processing it raises nothing and stitches nothing.
C8_InsufficientData ==
    /\ \A n \in DOMAIN output :
         output[n].images = <<>> => output[n].status = "InsufficientData"
    /\ ~(cy_pc = "raised" /\ cy_exc \in {"IndexError", "ValueError"} /\ images = <<>>)

\* C9 (as claimed): when process_all_cameras is given several cameras, no error
\* leaves it, and when a camera gave no figures every camera was still handled.
C9_FailureStaysLocal ==
    Len(snap.order) >= 2 =>
        /\ cy_pc # "raised"
        /\ (cy_pc = "done" /\ Stitched # DOMAIN output) =>
               \A k \in 1..Len(snap.order) : snap.order[k] \in DOMAIN output

\* the cameras that send messages
CameraNames == {m.camera : m \in Messages}

\* C10 (as claimed): what a cycle returns or raises is what process_all_cameras
\* makes of _stitching_data as it was when the cycle was called, whatever
\* handle_camera_message adds meanwhile.
C10_WorksOnSnapshot ==
    cy_pc \in {"done", "raised"} =>
        \E nbs \in [CameraNames -> NanCast] :
            ProcessAll(impl, snap, nbs) = [exc |-> cy_exc, output |-> output]

(***************************************************************************)
(* Claims about calls one after another (SpecCycles)                       *)
(***************************************************************************)
\* what the call that has just ended gave
Outcome == [exc |-> cy_exc, output |-> output]

\* C11: what a call gives is what process_all_cameras makes of its snapshot
\* alone, whatever the call before was given and left behind; and two calls
\* on the same snapshot give the same.
C11_FunctionOfSnapshot ==
    cy_pc \in {"done", "raised"} =>
        /\ \E nbs \in [CameraNames -> CastNow] : ProcessAll(impl, snap, nbs) = Outcome
        /\ (prev.called /\ prev.snap = snap) =>
               (prev.exc = cy_exc /\ prev.output = output)

\* a call made figures after a call on another snapshot had made other figures
C11_Witness ==
    /\ cy_pc = "done"
    /\ prev.called
    /\ prev.snap # snap
    /\ prev.output # <<>>
    /\ output # <<>>
    /\ output # prev.output

(***************************************************************************)
(* Claims about the effects of a cycle (Spec)                              *)
(***************************************************************************)
\* a step of process_all_cameras (every step of handle_camera_message moves msg_pc)
CycleStep == msg_pc' = msg_pc

\* C12 (as claimed): a step of a cycle leaves _stitching_data as it is (cameras,
\* positions, frame lists, frames) and writes nothing besides what it returns.
C12_NoEffectBesidesResult ==
    [][CycleStep => (stitching_data' = stitching_data /\ files' = files)]_vars


(***************************************************************************)
(* C13 to C20, on a given series (SpecSeries) and on manual_stitch_images  *)
(* (SpecStitch)                                                            *)
(***************************************************************************)
\* a frame of the camera's shape: as wide as the frames the client stores
WellFormed(f) == \E m \in Messages : Len(f) = Len(m.image)

\* the snapshot without its frames of another shape
WithoutMalformed(data) ==
    [data EXCEPT !.series =
        [n \in DOMAIN data.series |->
            [p \in DOMAIN data.series[n] |-> SelectSeq(data.series[n][p], WellFormed)]]]

\* some frame of the snapshot has another shape, some frame has the camera's
MixedShapes(data) ==
    /\ \E n \in DOMAIN data.series : \E p \in DOMAIN data.series[n] :
           \E k \in DOMAIN data.series[n][p] : ~WellFormed(data.series[n][p][k])
    /\ \E n \in DOMAIN data.series : \E p \in DOMAIN data.series[n] :
           \E k \in DOMAIN data.series[n][p] : WellFormed(data.series[n][p][k])

\* C13: a cycle on a series that holds frames of another shape than the
\* camera's raises no error and returns what it returns on the series without
\* those frames: they enter neither the averages nor the mosaic.
C13_MalformedExcluded ==
    (cy_pc \in {"done", "raised"} /\ MixedShapes(snap)) =>
        /\ cy_exc = "none"
        /\ \E nbs \in [CameraNames -> CastNow] :
               ProcessAll(impl, WithoutMalformed(snap), nbs) = Outcome

\* a placement that writes the head [offset:W_total] and nothing else
HeadOnlyStep ==
    /\ st_pc' = "place"
    /\ st_exc' = "none"
    /\ \A c \in 0..(CurTotal - 1) :
         /\ overlap_count'[c] = overlap_count[c] + (IF c \in HeadCols THEN 1 ELSE 0)
         /\ panorama'[c] = IF c \in HeadCols
                           THEN RAdd(panorama[c], Col(images[NextK], c - CurOffset(NextK)))
                           ELSE panorama[c]

\* C14 (as claimed): placing a frame wider than the canvas (Wf > W_total)
\* raises no error, writes the head segment to [offset:W_total] and writes no
\* tail (the tail width is clamped to zero).
C14_WideFrameHeadOnly == [][(Crossing /\ CurW > CurTotal) => HeadOnlyStep]_vars

\* C15: once manual_stitch_images has averaged, every raw pixel with count 0 is
\* exactly 0 and every raw pixel is a finite quotient: nothing was divided by a
\* zero count, whether the frames left some columns uncovered or all of them.
C15_UncoveredStayZero ==
    Averaged =>
        \A c \in DOMAIN panorama :
            /\ overlap_count[c] = 0 => panorama[c] = RatInt(0)
            /\ panorama[c].d # 0
            \* and so on the same canvas with every column uncovered (the
            \* loop placed nothing)
            /\ MeanOverlap([pano |-> Zeros(CurTotal),
                            cnt  |-> ZeroCount(CurTotal)]).pano[c] = RatInt(0)

\* averaged with a column no frame covers next to a covered column that is not 0
C15_Witness ==
    /\ Averaged
    /\ \E c \in DOMAIN panorama : overlap_count[c] = 0
    /\ \E c \in DOMAIN panorama : overlap_count[c] > 0 /\ panorama[c] # RatInt(0)

\* n is an integer nearest to num / den (den > 0; at a tie, either neighbour)
Nearest(n, num, den) == 2 * Abs(n * den - num) <= den

\* manual_stitch_images has made its canvas
Entered == st_pc \in {"place", "norm", "done"}

\* C16 (as claimed): the canvas is round(Wf * C / FOVf) columns wide, the
\* integer nearest to the quotient, for every frame width and every coverage.
C16_CanvasWidthRounded ==
    Entered => Nearest(Cardinality(DOMAIN panorama), CurW * full_coverage, FOV)

\* the angle, its remainder and the coverage of the offset being computed
OffAngle == offset_call.angle

OffNorm == offset_call.norm_angle

OffC == offset_call.full_coverage

\* norm_angle is angle mod C: between 0 and C (C excluded), and a whole number
\* of coverages away from the angle
IsRemainder ==
    /\ ~IsNegative(OffNorm)
    /\ OffNorm.deg < OffC
    /\ OffNorm.eps = OffAngle.eps
    /\ (OffNorm.deg - OffAngle.deg) % OffC = 0

\* x_offset is floor(norm_angle * Wf / FOVf) and is not negative
IsFloorOffset ==
    /\ offset_call.x_offset >= 0
    /\ offset_call.x_offset * FOV <= OffNorm.deg * offset_call.w
    /\ OffNorm.deg * offset_call.w < (offset_call.x_offset + 1) * FOV

\* C17 (as claimed): for every angle the normalized angle is angle mod C and
\* lies in [0, C), and the offset is floor(normalized * Wf / FOVf), not negative.
C17_NormalizedInHalfOpenRange ==
    /\ offset_call.pc \in {"offset", "done"} => IsRemainder
    /\ offset_call.pc = "done" => IsFloorOffset

\* b is clip(255 * (v - temp_min) / (temp_max - temp_min), 0, 255) rounded to
\* the nearest integer (temp_min < temp_max)
IsRoundedByte(b, v) ==
    LET t   == RMulInt(RSub(v, temp_min), ByteMax)
        dlt == RSub(temp_max, temp_min)
        num == t.n * dlt.d
        den == t.d * dlt.n
    IN  IF num <= 0 THEN b = 0
        ELSE IF num >= ByteMax * den THEN b = ByteMax
        ELSE Nearest(b, num, den)

\* C18 (as claimed): with temp_min < temp_max every byte of the panorama is the
\* clipped, scaled raw value rounded to the nearest integer, and a pixel that is
\* not colder than another has a byte that is not smaller.
C18_RoundedAndMonotone ==
    (st_pc = "done" /\ RLt(temp_min, temp_max)) =>
        \A c \in DOMAIN panorama_norm :
            /\ IsRoundedByte(panorama_norm[c], panorama[c])
            /\ \A e \in DOMAIN panorama_norm :
                   RLe(panorama[c], panorama[e]) => panorama_norm[c] <= panorama_norm[e]

\* the series process_camera_data has read, and its positions that hold frames,
\* in ascending order
SeriesRead == snap.series[cy_name]

Occupied == SortedSeq({p \in DOMAIN SeriesRead : SeriesRead[p] # <<>>})

\* img is the elementwise mean of frames
IsMeanOf(img, frames) ==
    /\ Len(img) = Len(frames[1])
    /\ \A j \in 1..Len(img) :
          RMulInt(img[j], Len(frames)) = SumCol(frames, j, Len(frames))

\* C19 (as claimed): when process_camera_data has read the series, images holds
\* exactly one frame for each position that has at least one frame, the
\* elementwise mean of all the frames of that position, and angles holds those
\* positions; a position with an empty list has added no frame and no angle.
C19_OneMeanPerPosition ==
    cy_pc = "stitch" =>
        /\ angles = Occupied
        /\ Len(images) = Len(Occupied)
        /\ \A k \in 1..Len(images) : IsMeanOf(images[k], SeriesRead[Occupied[k]])

\* the range the claim gives the linear descriptor of camera n
ClaimedDisplay(n) ==
    IF output[n].max_angle - output[n].min_angle >= output[n].coverage - CloseMargin
    THEN <<0, output[n].coverage>>
    ELSE <<output[n].min_angle, output[n].max_angle>>

\* the same range with the coverage the span of the angles gives (360 above 300
\* degrees, the span plus 20 otherwise)
SpanDisplay(n) ==
    LET span == output[n].max_angle - output[n].min_angle
        C    == IF span > SpanLimit THEN FullTurn ELSE span + FOV
    IN  IF span >= C - CloseMargin THEN <<0, C>>
        ELSE <<output[n].min_angle, output[n].max_angle>>

\* label k of 8 labels evenly spaced from lo to hi, to the tenth of a degree
IsEvenLabel(x, k, lo, hi) ==
    LET exact == Rat(lo * (TickCount - 1) + (k - 1) * (hi - lo), TickCount - 1)
        off   == RSub(x, exact)
    IN  2 * LabelScale * Abs(off.n) <= off.d

\* C20: the linear descriptor of every camera a cycle made figures for has 8
\* ticks evenly spaced from 0 to the panorama width, labelled (to the tenth of
\* a degree) evenly from display_min to display_max, which are 0 and C when
\* max_angle - min_angle >= C - 10 for the cycle's coverage C, and min_angle
\* and max_angle otherwise (the same range whether C is the coverage the cycle
\* stitched with or the one the span of the angles gives).
C20_LinearTicks ==
    \A n \in Stitched :
        LET f == output[n]
            w == Cardinality(DOMAIN f.panorama)
        IN  /\ Len(f.xticks) = TickCount /\ Len(f.xticklabels) = TickCount
            /\ ClaimedDisplay(n) = SpanDisplay(n)
            /\ f.xticklabels[1] = RatInt(ClaimedDisplay(n)[1])
            /\ f.xticklabels[TickCount] = RatInt(ClaimedDisplay(n)[2])
            /\ \A k \in 1..TickCount :
                  /\ RMulInt(f.xticks[k], TickCount - 1) = RatInt((k - 1) * w)
                  /\ IsEvenLabel(f.xticklabels[k], k, ClaimedDisplay(n)[1],
                                 ClaimedDisplay(n)[2])

\* figures made for a series that spans all but 10 degrees of the coverage: the
\* labels end beyond the largest angle
C20_Witness ==
    \E n \in Stitched :
        /\ output[n].max_angle - output[n].min_angle >= output[n].coverage - CloseMargin
        /\ output[n].xticklabels[TickCount] = RatInt(output[n].coverage)
        /\ output[n].coverage > output[n].max_angle

C22_TabListsAligned ==
    (impl = "tab" /\ cy_pc = "stitch") =>
        /\ Len(images) = Len(angles)
        /\ \A i \in 1..Len(angles) :
              /\ angles[i] = Occupied[i]
              /\ IsMeanOf(images[i], SeriesRead[angles[i]])
        /\ Len(angles) = Len(Occupied)

\* the cameras stitched with the coverage of a partial turn: a span of at most
\* 300 degrees and coverage = span + 20
Partial ==
    {n \in Stitched :
        /\ output[n].max_angle - output[n].min_angle <= SpanLimit
        /\ output[n].coverage = output[n].max_angle - output[n].min_angle + FOV}

\* the offset the placement loop gave frame i of camera n
OffsetIn(n, i) ==
    XOffset(output[n].angles[i], Width(output[n].images[1]), output[n].coverage)

\* C23 (as claimed): in a cycle of partial coverage a frame at a larger angle
\* has an offset that is not smaller, and no frame crosses the canvas boundary
\* (offset + Wf <= W_total), so the columns run from min_angle to max_angle.
C23_PartialOffsetsOrdered ==
    \A n \in Partial :
        LET f == output[n]
            w == Width(f.images[1])
        IN  /\ \A i, j \in 1..Len(f.angles) :
                  f.angles[i] <= f.angles[j] => OffsetIn(n, i) <= OffsetIn(n, j)
            /\ \A i \in 1..Len(f.angles) :
                  OffsetIn(n, i) + w <= TotalWidth(w, f.coverage)

\* C24 (as claimed): in the byte panorama of every camera stitched with
\* temp_min < temp_max, every pixel no frame contributed to (count = 0) is 0.
C24_UncoveredBytesZero ==
    \A n \in Stitched :
        RLt(output[n].temp_min, output[n].temp_max) =>
            \A c \in DOMAIN output[n].panorama :
                output[n].cnt[c] = 0 => output[n].panorama[c] = 0

\* the samples of the representative frames of camera n
SamplesOf(n) ==
    UNION {{output[n].images[k][j] : j \in 1..Len(output[n].images[k])} :
              k \in 1..Len(output[n].images)}

\* C25 (as claimed): for every camera a cycle stitched, temp_min and temp_max
\* are the smallest and the largest sample of its representative frames, and
\* every raw mosaic pixel with count > 0 lies in [temp_min, temp_max]: the byte
\* mapping clips no covered pixel.
C25_BoundsCoverMosaic ==
    \A n \in Stitched :
        LET f == output[n]
        IN  /\ f.temp_min \in SamplesOf(n) /\ f.temp_max \in SamplesOf(n)
            /\ \A x \in SamplesOf(n) : RLe(f.temp_min, x) /\ RLe(x, f.temp_max)
            /\ \A c \in DOMAIN f.raw :
                  f.cnt[c] > 0 => (RLe(f.temp_min, f.raw[c]) /\ RLe(f.raw[c], f.temp_max))

\* the placement loop is about to place pair NextK
Placing == st_pc = "place" /\ loop_i < NPairs(images, angles)

\* C26 (as claimed): with a coverage of at least 20 degrees every frame is
\* placed at an offset with 0 <= offset < W_total, the placement raises nothing
\* and, where the frame crosses the boundary, its head [offset:W_total] is not
\* empty.
C26_OffsetInsideCanvas ==
    [][(Placing /\ full_coverage >= FOV) =>
          /\ 0 <= CurOffset(NextK) /\ CurOffset(NextK) < CurTotal
          /\ st_pc' = "place"
          /\ Crossing => HeadCols # {}]_vars

(***************************************************************************)
(* SpecSafety: the status the clients report and the safety flags          *)
(***************************************************************************)
\* key in d
Has(d, k) == k \in DOMAIN d

\* system_status.get(name, {})
SubStatus(st, name) == IF Has(st, name) THEN st[name] ELSE EmptyDict

\* System.update_status with the dict {name: payload}
update_status(st, name, payload) ==
    [k \in DOMAIN st \cup {name} |-> IF k = name THEN payload ELSE st[k]]

\* System.has_valid_status: no subsystem's status is the empty dict
has_valid_status(st) == \A k \in DOMAIN st : DOMAIN st[k] # {}

\* the list internal_temperatures of check_dew_point
InternalTemperatures(st) ==
    LET marta == SubStatus(st, "marta")
        ch_temperature == SubStatus(SubStatus(st, "coldroom"), "ch_temperature")
    IN  (IF Has(marta, "TT05_CO2") THEN <<marta.TT05_CO2>> ELSE <<>>)
        \o (IF Has(marta, "TT06_CO2") THEN <<marta.TT06_CO2>> ELSE <<>>)
        \o (IF Has(ch_temperature, "value") THEN <<ch_temperature.value>> ELSE <<>>)

\* a comparison that lets the minimum equal the reference
DewPointLoose(min_temperature, reference_dew_point) ==
    min_temperature >= reference_dew_point

\* the comparison check_dew_point returns
DewPointStrict(min_temperature, reference_dew_point) ==
    min_temperature > reference_dew_point

check_dew_point(st) ==
    LET internal_temperatures == InternalTemperatures(st)
    IN  IF Len(internal_temperatures) # 3 THEN FALSE
        ELSE IF ~Has(st, "coldroom") \/ ~Has(st.coldroom, "CmdDoorUnlock_Reff") THEN FALSE
        ELSE IF st.coldroom.CmdDoorUnlock_Reff = 1
             THEN IF ~Has(st, "cleanroom") \/ ~Has(st.cleanroom, "dewpoint") THEN FALSE
                  ELSE DewPointStrict(SeqMin(internal_temperatures), st.cleanroom.dewpoint)
        ELSE IF ~Has(st.coldroom, "dew_point_c") THEN FALSE
        ELSE DewPointStrict(SeqMin(internal_temperatures), st.coldroom.dew_point_c)

check_door_status(st) ==
    IF ~Has(st, "coldroom") \/ ~Has(st.coldroom, "door_status") THEN FALSE
    ELSE st.coldroom.door_status = 1

check_light_status(st) ==
    IF ~Has(st, "coldroom") \/ ~Has(st.coldroom, "light") THEN FALSE
    ELSE st.coldroom.light = 1

\* channel.endswith(suffix), a name being the sequence of its characters
EndsWith(name, suffix) ==
    /\ Len(name) >= Len(suffix)
    /\ SubSeq(name, Len(name) - Len(suffix) + 1, Len(name)) = suffix

LV == <<"L", "V">>

\* the loop of check_hv_safe over the channels in the order of the dict (a
\* sequence of name and channel status): "on" where it breaks at a channel
\* that is on, "raise" where a channel has no isOn, "off" where it runs out
LvScan(caen) ==
    LET stops == {i \in 1..Len(caen) :
                    /\ EndsWith(caen[i].name, LV)
                    /\ (~Has(caen[i].ch, "isOn") \/ caen[i].ch.isOn)}
    IN  IF stops = {} THEN "off"
        ELSE LET i == CHOOSE j \in stops : \A k \in stops : j <= k
             IN  IF Has(caen[i].ch, "isOn") THEN "on" ELSE "raise"

check_hv_safe(st) ==
    IF ~Has(st, "caen") THEN FALSE
    ELSE IF LvScan(st.caen) = "raise" THEN FALSE
    ELSE LET lv_on == LvScan(st.caen) = "off"
             light_on == check_light_status(st)
             door_open == check_door_status(st)
         IN  lv_on /\ ~light_on /\ ~door_open

\* the safety checks at the end of MartaColdRoomMQTTClient.on_message
SafetyChecks(st, flags) ==
    IF has_valid_status(st)
    THEN [flags EXCEPT !.door_locked = ~check_dew_point(st),
                       !.sleep = check_door_status(st)]
    ELSE flags

\* the status messages the clients receive (temperatures and dew points in
\* whole degrees)
MartaPayloads ==
    {EmptyDict,
     [TT05_CO2 |-> 5, TT06_CO2 |-> 7],
     [TT05_CO2 |-> -40, TT06_CO2 |-> 7],
     [TT05_CO2 |-> 5]}

ColdroomPayloads ==
    {EmptyDict,
     [ch_temperature |-> [value |-> 6], CmdDoorUnlock_Reff |-> 0, dew_point_c |-> 0,
      light |-> 0, door_status |-> 0],
     [ch_temperature |-> [value |-> 6], CmdDoorUnlock_Reff |-> 1, dew_point_c |-> 0,
      light |-> 1, door_status |-> 1],
     [ch_temperature |-> [value |-> 6], CmdDoorUnlock_Reff |-> 0, dew_point_c |-> 5],
     [CmdDoorUnlock_Reff |-> 0, dew_point_c |-> 0, light |-> 0, door_status |-> 0],
     [ch_temperature |-> [value |-> 6], light |-> 0, door_status |-> 0]}

Co2Payloads == {EmptyDict, [CO2 |-> 400]}

CleanroomPayloads == {EmptyDict, [dewpoint |-> 0], [dewpoint |-> 20], [temperature |-> 21]}

ThermalPayloads == {EmptyDict, [running |-> FALSE]}

CaenPayloads ==
    {EmptyDict,
     <<[name |-> <<"L", "V">>, ch |-> [isOn |-> FALSE]],
       [name |-> <<"H", "V">>, ch |-> [isOn |-> TRUE]]>>,
     <<[name |-> <<"H", "V">>, ch |-> [isOn |-> FALSE]],
       [name |-> <<"L", "V">>, ch |-> [isOn |-> TRUE]]>>,
     <<[name |-> <<"L", "V">>, ch |-> [V |-> 0]]>>}

SafetyInit ==
    /\ impl = "image_stitching"
    /\ ServiceAtRest
    /\ NothingStitched
    /\ offset_call = NoOffset

\* on_message with a MARTA status topic: handle_marta_status_message, then the
\* safety checks
MartaStatusMessage(p) ==
    /\ system_status' = update_status(system_status, "marta", p)
    /\ safety_flags' = SafetyChecks(system_status', safety_flags)
    /\ UNCHANGED <<stitch_vars, service_vars, nan_cast, offset_call>>

\* on_message with a coldroom state topic
ColdroomStateMessage(p) ==
    /\ system_status' = update_status(system_status, "coldroom", p)
    /\ safety_flags' = SafetyChecks(system_status', safety_flags)
    /\ UNCHANGED <<stitch_vars, service_vars, nan_cast, offset_call>>

\* on_message with the topic of the CO2 sensor
Co2SensorMessage(p) ==
    /\ system_status' = update_status(system_status, "co2_sensor", p)
    /\ safety_flags' = SafetyChecks(system_status', safety_flags)
    /\ UNCHANGED <<stitch_vars, service_vars, nan_cast, offset_call>>

\* on_message with any other topic, or with a payload json.loads rejects: the
\* status stays, the safety checks run
OtherMessage ==
    /\ safety_flags' = SafetyChecks(system_status, safety_flags)
    /\ UNCHANGED <<stitch_vars, service_vars, nan_cast, offset_call, system_status>>

\* CleanroomMQTTClient.handle_status_message
CleanroomStatusMessage(p) ==
    /\ system_status' = update_status(system_status, "cleanroom", p)
    /\ UNCHANGED <<stitch_vars, service_vars, nan_cast, offset_call, safety_flags>>

\* ThermalCameraMQTTClient.handle_state_message
ThermalStateMessage(p) ==
    /\ system_status' = update_status(system_status, "thermal_camera", p)
    /\ UNCHANGED <<stitch_vars, service_vars, nan_cast, offset_call, safety_flags>>

\* CaenMQTTClient.handle_caen_message
CaenMessage(p) ==
    /\ system_status' = update_status(system_status, "caen", p)
    /\ safety_flags' = IF has_valid_status(system_status')
                       THEN [safety_flags EXCEPT !.hv_safe = check_hv_safe(system_status')]
                       ELSE safety_flags
    /\ UNCHANGED <<stitch_vars, service_vars, nan_cast, offset_call>>

SafetyNext ==
    \/ \E p \in MartaPayloads : MartaStatusMessage(p)
    \/ \E p \in ColdroomPayloads : ColdroomStateMessage(p)
    \/ \E p \in Co2Payloads : Co2SensorMessage(p)
    \/ OtherMessage
    \/ \E p \in CleanroomPayloads : CleanroomStatusMessage(p)
    \/ \E p \in ThermalPayloads : ThermalStateMessage(p)
    \/ \E p \in CaenPayloads : CaenMessage(p)

SpecSafety == SafetyInit /\ [][SafetyNext]_vars

\* C27: the door is flagged locked in every state where check_dew_point of the
\* current status is False
C27_LockedWhenDewPointFails ==
    ~check_dew_point(system_status) => safety_flags.door_locked

\* C28: check_hv_safe gives True only where the coldroom status has the light
\* and door_status fields, both reporting off and closed, and no channel whose
\* name ends in LV is on
C28_HvSafeConservative ==
    check_hv_safe(system_status) =>
        /\ Has(system_status, "caen")
        /\ \A i \in 1..Len(system_status.caen) :
             EndsWith(system_status.caen[i].name, LV) =>
                 /\ Has(system_status.caen[i].ch, "isOn")
                 /\ ~system_status.caen[i].ch.isOn
        /\ Has(system_status.coldroom, "light")
        /\ system_status.coldroom.light # 1
        /\ Has(system_status.coldroom, "door_status")
        /\ system_status.coldroom.door_status # 1

\* C29: check_dew_point of the current status is True exactly where the two MARTA
\* temperatures, the coldroom temperature, the door command state and the
\* reference dew point of that door state (the cleanroom's with the door open,
\* the coldroom's with it closed) are all present and each of the three
\* temperatures is strictly above the reference
C29_DewPointExact ==
    check_dew_point(system_status) <=>
        /\ Has(system_status.marta, "TT05_CO2")
        /\ Has(system_status.marta, "TT06_CO2")
        /\ Has(system_status.coldroom, "ch_temperature")
        /\ Has(system_status.coldroom.ch_temperature, "value")
        /\ Has(system_status.coldroom, "CmdDoorUnlock_Reff")
        /\ LET temps == {system_status.marta.TT05_CO2, system_status.marta.TT06_CO2,
                         system_status.coldroom.ch_temperature.value}
           IN  IF system_status.coldroom.CmdDoorUnlock_Reff = 1
               THEN /\ Has(system_status, "cleanroom")
                    /\ Has(system_status.cleanroom, "dewpoint")
                    /\ \A t \in temps : t > system_status.cleanroom.dewpoint
               ELSE /\ Has(system_status.coldroom, "dew_point_c")
                    /\ \A t \in temps : t > system_status.coldroom.dew_point_c

\* the check passed against the cleanroom's dew point with the door open, and
\* on_message unlocked the door on it
C29_Witness ==
    /\ check_dew_point(system_status)
    /\ system_status.coldroom.CmdDoorUnlock_Reff = 1
    /\ ~safety_flags.door_locked

\* C30: the step of handle_camera_message that ends the handling of a message
\* puts its frame at the end of the list of its camera and position, which
\* exist by then; every other step of every handler keeps each stored list as
\* it is, a list made meanwhile being empty, and no camera or position is ever
\* dropped
C30_OneFrameAppended ==
    [][LET old == stitching_data.series
           new == stitching_data'.series
           appends == msg_pc = "append" /\ msg_pc' = "idle"
       IN  /\ DOMAIN old \subseteq DOMAIN new
           /\ \A c \in DOMAIN old : DOMAIN old[c] \subseteq DOMAIN new[c]
           /\ appends => /\ msg.camera \in DOMAIN new
                         /\ msg.position \in DOMAIN new[msg.camera]
           /\ \A c \in DOMAIN new : \A p \in DOMAIN new[c] :
                LET before == IF c \in DOMAIN old /\ p \in DOMAIN old[c]
                              THEN old[c][p] ELSE <<>>
                IN  new[c][p] = IF appends /\ c = msg.camera /\ p = msg.position
                                THEN Append(before, AsFrame(msg.image))
                                ELSE before]_vars

\* two messages of camera0 at position 90 and one of camera1 have been handled:
\* the second frame stands after the first, next to the other camera's frame
C30_Witness ==
    /\ msg_pc = "idle"
    /\ "camera0" \in DOMAIN stitching_data.series
    /\ "camera1" \in DOMAIN stitching_data.series
    /\ 90 \in DOMAIN stitching_data.series["camera0"]
    /\ 0 \in DOMAIN stitching_data.series["camera1"]
    /\ Len(stitching_data.series["camera0"][90]) = 2
    /\ stitching_data.series["camera0"][90][1] # stitching_data.series["camera0"][90][2]
    /\ Len(stitching_data.series["camera1"][0]) = 1

=============================================================================
